---- MODULE Spec2Model ----
(***************************************************************************)
(* A model of the teatree tree view (package teatree): TreeItem and Tree,  *)
(* the navigation methods SelectNext / SelectPrevious, ToggleChildren with *)
(* its OpenFunc / CloseFunc hooks, AddChildren, Refresh, and the           *)
(* scroll-clipped rendering of ScrollView / Tree.View.                     *)
(*                                                                         *)
(* A *TreeItem is a number of 1..MaxPool, handed out by NewItem in order.  *)
(* A Go panic (index out of range, nil dereference, failed type assertion) *)
(* ends the program: the operation leaves the state as it was when the     *)
(* panic was raised and sets failed; nothing runs after it.                *)
(***************************************************************************)
EXTENDS Integers, Sequences, FiniteSets, TLC

\* ------------------------------------------------------------------ bounds
\* Items NewItem may create in the navigation specification.
MaxNodes == 3
\* Top-level items of a flat list in the rendering specification.
MaxFlat == 10
\* Rows scrolled above the window (TopLine ranges over -MaxScroll..0).
MaxScroll == 3
\* Largest window height delivered by a WindowSizeMsg.
MaxHeight == 6
\* Largest window width delivered by a WindowSizeMsg.
MaxWidth == 1
\* Threads that call AddChildren concurrently.
MaxThreads == 2
\* Items created by a caller that may pass any item to AddChildren.
MaxAny == 2
\* Items a caller passes to one AddChildren call when it may pass any item.
MaxArgs == 2
\* Longest child sequence such a caller builds.
MaxLen == 2

\* --------------------------------------------------------------- references
\* The nil pointer / nil interface value.
NIL == 0
\* The one *Tree of the program, as the value of a Parent or ParentTree field.
TREE == -1

MaxPool == IF MaxNodes > MaxFlat THEN MaxNodes ELSE MaxFlat
Pool == 1..MaxPool
Threads == 1..MaxThreads

VARIABLES
    nitems,           \* how many TreeItems NewItem has returned so far
    Parent,           \* TreeItem.Parent: NIL, TREE or an item
    ParentTree,       \* TreeItem.ParentTree: NIL or TREE
    Children,         \* TreeItem.Children
    CanHaveChildren,  \* TreeItem.CanHaveChildren
    Open,             \* TreeItem.Open
    OpenFunc,         \* TreeItem.OpenFunc: "nil" or the kind of hook supplied
    CloseFunc,        \* TreeItem.CloseFunc: "nil" or "set"
    indent,           \* TreeItem.indent
    Items,            \* Tree.Items
    ActiveItem,       \* Tree.ActiveItem: NIL or an item
    TopLine,          \* Tree.TopLine
    Width,            \* Tree.Width
    Height,           \* Tree.Height
    initialized,      \* Tree.initialized
    failed,           \* the program has panicked
    last,             \* the last operation: its name, receiver, the sequence it took
                      \* or returned, the hooks it ran
    calls,            \* per thread, the AddChildren call it is executing
    returned,         \* what the Tree.Update of the last step returned to its caller
                      \* (NoReturn after any other operation)
    view              \* what the Tree.View of the last step returned, and its final
                      \* topline counter (NoView after any other operation)

vars == <<nitems, Parent, ParentTree, Children, CanHaveChildren, Open, OpenFunc,
          CloseFunc, indent, Items, ActiveItem, TopLine, Width, Height,
          initialized, failed, last, calls, returned, view>>

itemVars == <<nitems, Parent, ParentTree, Children, CanHaveChildren, Open,
              OpenFunc, CloseFunc, indent>>
viewportVars == <<TopLine, Width, Height, initialized>>

\* --------------------------------------------------------------- helpers
Created == 1..nitems

Range(s) == {s[i] : i \in 1..Len(s)}

\* Sequences without repetition over S, of length at most n.
SeqsUpTo(S, n) ==
    UNION {{s \in [1..k -> S] : \A i, j \in 1..k : s[i] = s[j] => i = j} : k \in 0..n}

\* ItemHolder.GetItems: the child sequence of a holder (the Tree or an item).
GetItems(h) == IF h = TREE THEN Items ELSE Children[h]

\* The items x is attached under, following Parent upwards (x excluded).
RECURSIVE AncestorsUpTo(_, _)
AncestorsUpTo(x, fuel) ==
    IF fuel = 0 \/ x = NIL \/ x = TREE \/ Parent[x] \in {NIL, TREE} THEN {}
    ELSE {Parent[x]} \cup AncestorsUpTo(Parent[x], fuel - 1)
Ancestors(x) == AncestorsUpTo(x, MaxPool)

NoOp(op, ti) == [op |-> op, ti |-> ti, kids |-> <<>>, hooks |-> <<>>]

\* The value of view when the last operation was not a Tree.View that returned.
NoView == [topline |-> 0, out |-> <<>>]

\* The value of returned when the last step was not a Tree.Update that returned.
NoReturn == [model |-> NIL, cmd |-> NIL]
\* Tree.Update's "return t, cmd" and "return t, nil": the Tree and the command
\* of TreeItem.Update, which is always nil.
UpdateReturn == [model |-> TREE, cmd |-> NIL]

\* A thread that is not inside an AddChildren call: pc is the statement the
\* thread executes next, holder the receiver, kids the argument, old the slice
\* that append has read, k the position of the loop over the argument, and
\* conc tells whether another thread was inside a call when this one began.
Idle == [pc |-> "idle", holder |-> NIL, kids |-> <<>>, old |-> <<>>, k |-> 0,
         conc |-> FALSE]
NoCalls == [t \in Threads |-> Idle]

\* The kinds of item a caller creates: (canHaveChildren, openFunc, closeFunc).
\* PlainKinds are the items of TestTree (no hooks); HookKinds are items with a
\* lazily populating openFunc (the file browser's) and a closeFunc, next to a
\* folder without hooks.
PlainKinds == { <<FALSE, "nil", "nil">>, <<TRUE, "nil", "nil">> }
HookKinds == { <<TRUE, "nil", "nil">>, <<TRUE, "lazy", "set">>, <<FALSE, "lazy", "set">> }

\* ------------------------------------------------------------------ Init
\* New(): an empty tree, initialized by setInitialValues, no item created yet.
Init ==
    /\ nitems = 0
    /\ Parent = [n \in Pool |-> NIL]
    /\ ParentTree = [n \in Pool |-> NIL]
    /\ Children = [n \in Pool |-> <<>>]
    /\ CanHaveChildren = [n \in Pool |-> FALSE]
    /\ Open = [n \in Pool |-> FALSE]
    /\ OpenFunc = [n \in Pool |-> "nil"]
    /\ CloseFunc = [n \in Pool |-> "nil"]
    /\ indent = [n \in Pool |-> 0]
    /\ Items = <<>>
    /\ ActiveItem = NIL
    /\ TopLine = 0
    /\ Width = 0
    /\ Height = 0
    /\ initialized = TRUE
    /\ failed = FALSE
    /\ last = NoOp("New", NIL)
    /\ view = NoView
    /\ returned = NoReturn
    /\ calls = NoCalls

\* ------------------------------------------------------------- operations
\* NewItem(name, icon, canHaveChildren, nil, openFunc, closeFunc, data).
NewItem(kind) ==
    /\ ~failed
    /\ nitems < MaxNodes
    /\ nitems' = nitems + 1
    /\ CanHaveChildren' = [CanHaveChildren EXCEPT ![nitems + 1] = kind[1]]
    /\ OpenFunc' = [OpenFunc EXCEPT ![nitems + 1] = kind[2]]
    /\ CloseFunc' = [CloseFunc EXCEPT ![nitems + 1] = kind[3]]
    /\ last' = NoOp("NewItem", NIL)
    /\ UNCHANGED <<Parent, ParentTree, Children, Open, indent, Items, ActiveItem,
                   TopLine, Width, Height, initialized, failed>>
    /\ view' = NoView
    /\ returned' = NoReturn
    /\ UNCHANGED calls

\* Items a caller may hand to AddChildren: created, never attached anywhere.
Fresh == {n \in Created : Parent[n] = NIL}

ActiveOrLast(active, items) == IF active = NIL THEN items[Len(items)] ELSE active
\* Tree.AddChildren after the append: if t.ActiveItem == nil, it becomes
\* t.Items[0].
ActiveOrFirst(active, items) == IF active = NIL THEN items[1] ELSE active

\* Tree.AddChildren(i...).
TreeAddChildren(i) ==
    /\ ~failed
    /\ IF Len(i) = 0
       THEN UNCHANGED <<Items, ActiveItem, Parent, ParentTree>>
       ELSE /\ Items' = Items \o i
            /\ ActiveItem' = ActiveOrFirst(ActiveItem, Items')
            /\ Parent' = [n \in Pool |-> IF n \in Range(i) THEN TREE ELSE Parent[n]]
            /\ ParentTree' = [n \in Pool |-> IF n \in Range(i) THEN TREE ELSE ParentTree[n]]
    /\ last' = [op |-> "TreeAddChildren", ti |-> TREE, kids |-> i, hooks |-> <<>>]
    /\ UNCHANGED <<nitems, Children, CanHaveChildren, Open, OpenFunc, CloseFunc,
                   indent, TopLine, Width, Height, initialized, failed>>
    /\ view' = NoView
    /\ returned' = NoReturn
    /\ UNCHANGED calls

PrependChildren(old, children) == children \o old
\* append(ti.Children, children...).
AppendChildren(old, children) == old \o children

\* TreeItem.AddChildren(children...).
ItemAddChildren(ti, children) ==
    /\ ~failed
    /\ Children' = [Children EXCEPT ![ti] = AppendChildren(@, children)]
    /\ CanHaveChildren' = [CanHaveChildren EXCEPT ![ti] = TRUE]
    /\ Parent' = [n \in Pool |-> IF n \in Range(children) THEN ti ELSE Parent[n]]
    /\ ParentTree' = [n \in Pool |->
                        IF n \in Range(children) THEN ParentTree[ti] ELSE ParentTree[n]]
    /\ last' = [op |-> "ItemAddChildren", ti |-> ti, kids |-> children, hooks |-> <<>>]
    /\ UNCHANGED <<nitems, Open, OpenFunc, CloseFunc, indent, Items, ActiveItem,
                   TopLine, Width, Height, initialized, failed>>
    /\ view' = NoView
    /\ returned' = NoReturn
    /\ UNCHANGED calls

\* ------------------------------------------------------------- navigation
\* The outcome of a navigation call on the active item: it returned ("ok") with
\* the ActiveItem it left, it panicked, or it never returns ("hang": the climb
\* ran into a cycle).
Ok(a) == [rc |-> "ok", active |-> a]
Panic(a) == [rc |-> "panic", active |-> a]
Hang(a) == [rc |-> "hang", active |-> a]

\* The positions of ti in the sequence s.
Positions(s, ti) == {x \in 1..Len(s) : s[x] = ti}
Least(S) == CHOOSE x \in S : \A y \in S : x <= y

\* SelectNext's test for descending into the item's children.
DescendsInto(ti, descend) == Len(Children[ti]) > 0 /\ Open[ti] /\ descend

HitTopNever(ti) == FALSE
\* SelectNext's test "We've hit the top": ti.Parent == ti.ParentTree.
HitTop(ti) == Parent[ti] = ParentTree[ti]

\* TreeItem.SelectNext: the loop. active is the receiver (the active item), ti
\* the item the climb has reached.
RECURSIVE SelectNextLoop(_, _, _, _)
SelectNextLoop(active, ti, descend, fuel) ==
    IF fuel = 0 THEN Hang(active)
    ELSE IF Parent[ti] = NIL THEN Panic(active)
    ELSE LET parentItems == GetItems(Parent[ti])
             withNext == {x \in Positions(parentItems, ti) : x + 1 <= Len(parentItems)}
         IN  IF DescendsInto(ti, descend)
             THEN IF ParentTree[ti] = NIL THEN Panic(active) ELSE Ok(Children[ti][1])
             ELSE IF withNext # {}
             THEN IF ParentTree[ti] = NIL THEN Panic(active)
                  ELSE Ok(parentItems[Least(withNext) + 1])
             ELSE IF HitTop(ti) THEN Ok(active)
             ELSE IF Parent[ti] = TREE THEN Panic(active)
             ELSE SelectNextLoop(active, Parent[ti], FALSE, fuel - 1)

ItemSelectNext(ti) == SelectNextLoop(ti, ti, TRUE, MaxPool + 1)

\* SelectPrevious's test for going on to the candidate's last child.
GoesDeeper(newItem) == CanHaveChildren[newItem] /\ Open[newItem]

\* TreeItem.SelectPrevious: the inner loop that descends from the previous
\* sibling to its last open descendant; item is the receiver.
RECURSIVE DescendLast(_, _, _)
DescendLast(item, newItem, fuel) ==
    IF fuel = 0 THEN Hang(item)
    ELSE IF GoesDeeper(newItem)
    THEN IF Len(Children[newItem]) = 0 THEN Panic(item)
         ELSE DescendLast(item, Children[newItem][Len(Children[newItem])], fuel - 1)
    ELSE IF ParentTree[item] = NIL THEN Panic(item) ELSE Ok(newItem)

ItemSelectPrevious(ti) ==
    IF Parent[ti] = NIL THEN Panic(ti)
    ELSE LET siblingItems == GetItems(Parent[ti])
             at == Positions(siblingItems, ti)
         IN  IF at = {} THEN Ok(ti)
             ELSE IF Least(at) - 1 >= 1
             THEN DescendLast(ti, siblingItems[Least(at) - 1], MaxPool + 1)
             ELSE IF Parent[ti] # TREE
             THEN IF ParentTree[ti] = NIL THEN Panic(ti) ELSE Ok(Parent[ti])
             ELSE Ok(ti)

\* Tree.SelectNext / Tree.SelectPrevious, as Tree.Update runs them on "down"/"up".
TreeSelectNextUnguarded ==
    IF ActiveItem # NIL THEN ItemSelectNext(ActiveItem) ELSE Panic(ActiveItem)
TreeSelectNext == IF ActiveItem # NIL THEN ItemSelectNext(ActiveItem) ELSE Ok(ActiveItem)
TreeSelectPrevious ==
    IF ActiveItem # NIL THEN ItemSelectPrevious(ActiveItem) ELSE Ok(ActiveItem)

NavigateCollapsing(op, res) ==
    /\ ~failed
    /\ res.rc # "hang"
    /\ ActiveItem' = res.active
    /\ failed' = (res.rc = "panic")
    /\ last' = NoOp(op, ActiveItem)
    /\ Open' = [n \in Pool |-> Open[n] /\ n # ActiveItem]
    /\ UNCHANGED <<nitems, Parent, ParentTree, Children, CanHaveChildren, OpenFunc,
                   CloseFunc, indent, Items, viewportVars>>
    /\ view' = NoView
    /\ returned' = IF res.rc = "ok" THEN UpdateReturn ELSE NoReturn
    /\ UNCHANGED calls

\* Tree.Update on an "up" or "down" key: res is what Tree.SelectPrevious or
\* Tree.SelectNext does to ActiveItem.
Navigate(op, res) ==
    /\ ~failed
    /\ res.rc # "hang"
    /\ ActiveItem' = res.active
    /\ failed' = (res.rc = "panic")
    /\ last' = NoOp(op, ActiveItem)
    /\ UNCHANGED <<itemVars, Items, viewportVars>>
    /\ view' = NoView
    /\ returned' = IF res.rc = "ok" THEN UpdateReturn ELSE NoReturn
    /\ UNCHANGED calls

SelectNext == Navigate("SelectNext", TreeSelectNext)
SelectPrevious == Navigate("SelectPrevious", TreeSelectPrevious)

\* --------------------------------------------------------------- toggling
\* The file browser's openFunc: when the item has no children, walk its directory
\* and add one new item per entry (dirs[k] says whether entry k is a directory);
\* every new item gets the same openFunc and no closeFunc.
WalkingOpenFunc(ti, dirs) ==
    LET new == [k \in 1..Len(dirs) |-> nitems + k]
    IN  /\ nitems + Len(dirs) <= MaxNodes
        /\ nitems' = nitems + Len(dirs)
        /\ Children' = [Children EXCEPT ![ti] = @ \o new]
        /\ CanHaveChildren' = [n \in Pool |->
              IF n \in Range(new) THEN dirs[n - nitems] ELSE CanHaveChildren[n]]
        /\ OpenFunc' = [n \in Pool |-> IF n \in Range(new) THEN "lazy" ELSE OpenFunc[n]]
        /\ Parent' = [n \in Pool |-> IF n \in Range(new) THEN ti ELSE Parent[n]]
        /\ ParentTree' = [n \in Pool |->
              IF n \in Range(new) THEN ParentTree[ti] ELSE ParentTree[n]]

LazyOpenFunc(ti, dirs) ==
    LET new == [k \in 1..Len(dirs) |-> nitems + k]
    IN  /\ nitems + Len(dirs) <= MaxNodes
        /\ IF Len(Children[ti]) = 0
           THEN /\ nitems' = nitems + Len(dirs)
                /\ Children' = [Children EXCEPT ![ti] = new]
                /\ CanHaveChildren' = [n \in Pool |->
                      IF n \in Range(new) THEN dirs[n - nitems] ELSE CanHaveChildren[n]]
                /\ OpenFunc' = [n \in Pool |->
                      IF n \in Range(new) THEN "lazy" ELSE OpenFunc[n]]
                /\ Parent' = [n \in Pool |-> IF n \in Range(new) THEN ti ELSE Parent[n]]
                /\ ParentTree' = [n \in Pool |->
                      IF n \in Range(new) THEN ParentTree[ti] ELSE ParentTree[n]]
           ELSE /\ Len(dirs) = 0
                /\ UNCHANGED <<nitems, Children, CanHaveChildren, OpenFunc, Parent,
                               ParentTree>>

FlipOpenCollapsing(ti) ==
    [n \in Pool |-> IF n = ti THEN ~Open[ti]
                    ELSE IF Open[ti] /\ n \in Range(Children[ti]) THEN FALSE
                    ELSE Open[n]]
\* ti.Open = !ti.Open.
FlipOpen(ti) == [Open EXCEPT ![ti] = ~Open[ti]]

MayToggleAlways(ti) == TRUE
\* ToggleChildren's guard: if ti.CanHaveChildren.
MayToggle(ti) == CanHaveChildren[ti]

\* TreeItem.ToggleChildren; hooks is the sequence of hooks the call invokes.
ToggleChildren(ti, dirs, hooks) ==
    IF MayToggle(ti)
    THEN /\ Open' = FlipOpen(ti)
         /\ IF ~Open[ti]
            THEN IF OpenFunc[ti] # "nil"
                 THEN /\ LazyOpenFunc(ti, dirs)
                      /\ hooks = <<"OpenFunc">>
                 ELSE /\ Len(dirs) = 0
                      /\ hooks = <<>>
                      /\ UNCHANGED <<nitems, Children, CanHaveChildren, OpenFunc,
                                     Parent, ParentTree>>
            ELSE /\ Len(dirs) = 0
                 /\ hooks = IF CloseFunc[ti] # "nil" THEN <<"CloseFunc">> ELSE <<>>
                 /\ UNCHANGED <<nitems, Children, CanHaveChildren, OpenFunc, Parent,
                                ParentTree>>
    ELSE /\ Len(dirs) = 0
         /\ hooks = <<>>
         /\ UNCHANGED <<nitems, Children, CanHaveChildren, OpenFunc, Parent,
                        ParentTree, Open>>

\* Tree.ToggleChild, as Tree.Update runs it on " " or ".".
ToggleChild ==
    /\ ~failed
    /\ \E dirs \in UNION {[1..k -> BOOLEAN] : k \in 0..MaxNodes} :
       \E hooks \in {<<>>, <<"OpenFunc">>, <<"CloseFunc">>} :
          /\ IF ActiveItem # NIL
             THEN ToggleChildren(ActiveItem, dirs, hooks)
             ELSE /\ Len(dirs) = 0
                  /\ hooks = <<>>
                  /\ UNCHANGED <<nitems, Children, CanHaveChildren, OpenFunc, Parent,
                                 ParentTree, Open>>
          /\ last' = [op |-> "ToggleChild", ti |-> ActiveItem, kids |-> <<>>,
                      hooks |-> hooks]
    /\ UNCHANGED <<CloseFunc, indent, Items, ActiveItem, viewportVars, failed>>
    /\ view' = NoView
    /\ returned' = UpdateReturn
    /\ UNCHANGED calls

\* TreeItem.OpenChildren, called by the host on an item.
OpenChildren(ti) ==
    /\ ~failed
    /\ Open' = [Open EXCEPT ![ti] = TRUE]
    /\ last' = NoOp("OpenChildren", ti)
    /\ UNCHANGED <<nitems, Parent, ParentTree, Children, CanHaveChildren, OpenFunc,
                   CloseFunc, indent, Items, ActiveItem, viewportVars, failed, calls>>
    /\ view' = NoView
    /\ returned' = NoReturn

\* TreeItem.CloseChildren, called by the host on an item.
CloseChildren(ti) ==
    /\ ~failed
    /\ Open' = [Open EXCEPT ![ti] = FALSE]
    /\ last' = NoOp("CloseChildren", ti)
    /\ UNCHANGED <<nitems, Parent, ParentTree, Children, CanHaveChildren, OpenFunc,
                   CloseFunc, indent, Items, ActiveItem, viewportVars, failed, calls>>
    /\ view' = NoView
    /\ returned' = NoReturn

\* ---------------------------------------------------------------- refresh
ItemRefreshKeepsOpen(ti) ==
    /\ ~failed
    /\ Children' = [Children EXCEPT ![ti] = <<>>]
    /\ last' = NoOp("ItemRefresh", ti)
    /\ UNCHANGED <<nitems, Parent, ParentTree, CanHaveChildren, Open, OpenFunc,
                   CloseFunc, indent, Items, ActiveItem, viewportVars, failed, calls>>
    /\ view' = NoView
    /\ returned' = NoReturn
\* TreeItem.Refresh.
ItemRefresh(ti) ==
    /\ ~failed
    /\ Children' = [Children EXCEPT ![ti] = <<>>]
    /\ Open' = [Open EXCEPT ![ti] = FALSE]
    /\ last' = NoOp("ItemRefresh", ti)
    /\ UNCHANGED <<nitems, Parent, ParentTree, CanHaveChildren, OpenFunc, CloseFunc,
                   indent, Items, ActiveItem, viewportVars, failed>>
    /\ view' = NoView
    /\ returned' = NoReturn
    /\ UNCHANGED calls

\* Tree.Refresh.
TreeRefresh ==
    /\ ~failed
    /\ Items' = <<>>
    /\ last' = NoOp("TreeRefresh", TREE)
    /\ UNCHANGED <<itemVars, ActiveItem, viewportVars, failed>>
    /\ view' = NoView
    /\ returned' = NoReturn
    /\ UNCHANGED calls

\* --------------------------------------------------------------- rendering
\* A string is the sequence of its lines; the empty string is <<>>. A line is
\* the row of an item: its indentation, its chevron, and, once it went through
\* Style.Render, its icon and name (label) in the focused or unfocused style.
\* BlankRow is an empty line, which only JoinVertical produces.
BlankRow == [ti |-> NIL, indent |-> 0, chevron |-> "", label |-> FALSE, focused |-> FALSE]

RowAlwaysFocused(ti, ind, render) ==
    [ti |-> ti,
     indent |-> ind[ti],
     chevron |-> IF CanHaveChildren[ti]
                 THEN IF Open[ti] THEN "ChevronDown" ELSE "ChevronRight"
                 ELSE "NoChevron",
     label |-> render,
     focused |-> render]

\* ScrollView's own line for ti: indentation and chevron, rendered with the
\* label when render is set, highlit when ti is the tree's active item.
Row(ti, ind, render) ==
    [ti |-> ti,
     indent |-> ind[ti],
     chevron |-> IF CanHaveChildren[ti]
                 THEN IF Open[ti] THEN "ChevronDown" ELSE "ChevronRight"
                 ELSE "NoChevron",
     label |-> render,
     focused |-> render /\ ActiveItem # NIL /\ ActiveItem = ti]

\* strings.Split(s, "\n"), as lipgloss.JoinVertical takes the lines of a block:
\* the empty string is one empty line.
Lines(str) == IF str = <<>> THEN <<BlankRow>> ELSE str

RECURSIVE Stack(_, _)
Stack(strs, x) == IF x > Len(strs) THEN <<>> ELSE Lines(strs[x]) \o Stack(strs, x + 1)

\* lipgloss.JoinVertical(lipgloss.Left, strs...): nothing for no string, the
\* string itself for one, else the lines of every string stacked in order.
JoinVertical(strs) ==
    IF Len(strs) = 0 THEN <<>>
    ELSE IF Len(strs) = 1 THEN strs[1]
    ELSE Stack(strs, 1)

ClippedEarly(topline, bottomline) == topline >= bottomline
\* ScrollView's clipping test, after the increment: topline > bottomline.
Clipped(topline, bottomline) == topline > bottomline

\* TreeItem.ScrollView(topline, bottomline), with the indent fields threaded
\* through the walk; ScrollKids is its loop over ti.Children from position x.
RECURSIVE ScrollView(_, _, _, _, _)
RECURSIVE ScrollKids(_, _, _, _, _, _, _)
ScrollView(ti, ind, topline, bottomline, fuel) ==
    IF fuel = 0 THEN [rc |-> "hang", topline |-> topline, s |-> <<>>, indent |-> ind]
    ELSE IF ParentTree[ti] = NIL
    THEN [rc |-> "panic", topline |-> topline, s |-> <<>>, indent |-> ind]
    ELSE LET render == ~(topline < 0)
             s == <<Row(ti, ind, render)>>
             counted == topline + 1
         IN  IF Clipped(counted, bottomline)
             THEN [rc |-> "ok", topline |-> counted, s |-> <<>>, indent |-> ind]
             ELSE IF Len(Children[ti]) > 0 /\ Open[ti]
             THEN LET k == ScrollKids(ti, 1, ind, counted, bottomline, <<>>, fuel - 1)
                  IN  IF k.rc # "ok"
                      THEN [rc |-> k.rc, topline |-> k.topline, s |-> <<>>,
                            indent |-> k.indent]
                      ELSE [rc |-> "ok", topline |-> k.topline,
                            s |-> JoinVertical(<<s>> \o k.kids), indent |-> k.indent]
             ELSE [rc |-> "ok", topline |-> counted, s |-> s, indent |-> ind]

ScrollKids(ti, x, ind, topline, bottomline, kids, fuel) ==
    IF x > Len(Children[ti])
    THEN [rc |-> "ok", topline |-> topline, kids |-> kids, indent |-> ind]
    ELSE LET item == Children[ti][x]
             r == ScrollView(item, [ind EXCEPT ![item] = ind[ti] + 1], topline,
                             bottomline, fuel)
         IN  IF r.rc # "ok"
             THEN [rc |-> r.rc, topline |-> r.topline, kids |-> kids, indent |-> r.indent]
             ELSE IF r.topline >= bottomline
             THEN [rc |-> "ok", topline |-> r.topline, kids |-> Append(kids, r.s),
                   indent |-> r.indent]
             ELSE ScrollKids(ti, x + 1, r.indent, r.topline, bottomline,
                             Append(kids, r.s), fuel)

\* Tree.View's loop over Tree.Items from position x: every item is handed to
\* ScrollView with bottomline = Tree.Height, and its text is kept when not empty.
RECURSIVE ViewItems(_, _, _, _)
ViewItems(x, ind, topline, views) ==
    IF x > Len(Items)
    THEN [rc |-> "ok", topline |-> topline, views |-> views, indent |-> ind]
    ELSE LET item == Items[x]
             r == ScrollView(item, [ind EXCEPT ![item] = 0], topline, Height, MaxPool)
         IN  IF r.rc # "ok"
             THEN [rc |-> r.rc, topline |-> r.topline, views |-> views,
                   indent |-> r.indent]
             ELSE ViewItems(x + 1, r.indent, r.topline,
                            IF r.s # <<>> THEN Append(views, r.s) ELSE views)

\* Tree.View.
TreeView ==
    /\ ~failed
    /\ LET r == IF ~initialized
                THEN [rc |-> "ok", topline |-> TopLine, views |-> <<>>, indent |-> indent]
                ELSE ViewItems(1, indent, TopLine, <<>>)
       IN  /\ r.rc # "hang"
           /\ indent' = r.indent
           /\ failed' = (r.rc = "panic")
           /\ view' = IF r.rc = "ok"
                      THEN [topline |-> r.topline, out |-> JoinVertical(r.views)]
                      ELSE NoView
    /\ last' = NoOp("View", TREE)
    /\ UNCHANGED <<nitems, Parent, ParentTree, Children, CanHaveChildren, Open,
                   OpenFunc, CloseFunc, Items, ActiveItem, viewportVars, calls>>
    /\ returned' = NoReturn

\* Tree.Update on a tea.WindowSizeMsg{Width: w, Height: h}.
WindowSizeMsg(w, h) ==
    /\ ~failed
    /\ Width' = w
    /\ Height' = h
    /\ initialized' = TRUE
    /\ last' = NoOp("WindowSizeMsg", TREE)
    /\ view' = NoView
    /\ returned' = UpdateReturn
    /\ UNCHANGED calls
    /\ UNCHANGED <<itemVars, Items, ActiveItem, TopLine, failed>>

\* The host scrolls: it assigns the exported field Tree.TopLine.
SetTopLine(k) ==
    /\ ~failed
    /\ TopLine' = k
    /\ last' = NoOp("SetTopLine", TREE)
    /\ view' = NoView
    /\ returned' = NoReturn
    /\ UNCHANGED calls
    /\ UNCHANGED <<itemVars, Items, ActiveItem, Width, Height, initialized, failed>>

\* ------------------------------------------------------------------- paths
\* TreeItem.Name: an item is named by its number.
Name(ti) == ti

PrependName(path, name) == <<name>> \o path
\* append(path, ti.Name).
AppendName(path, name) == Append(path, name)

\* TreeItem.GetPath, and Tree.GetPath for the holder TREE; rc is "hang" when
\* the recursion over Parent never ends.
RECURSIVE HolderGetPath(_, _)
HolderGetPath(h, fuel) ==
    IF h = TREE THEN [rc |-> "ok", path |-> <<>>]
    ELSE IF fuel = 0 THEN [rc |-> "hang", path |-> <<>>]
    ELSE LET up == IF Parent[h] # NIL THEN HolderGetPath(Parent[h], fuel - 1)
                   ELSE [rc |-> "ok", path |-> <<>>]
         IN  [rc |-> up.rc, path |-> AppendName(up.path, Name(h))]

\* A caller asks for the path of an item (the file browser's openFunc does);
\* last.kids holds the names returned.
GetPath(ti) ==
    /\ ~failed
    /\ HolderGetPath(ti, MaxPool + 1).rc = "ok"
    /\ last' = [op |-> "GetPath", ti |-> ti,
                kids |-> HolderGetPath(ti, MaxPool + 1).path, hooks |-> <<>>]
    /\ view' = NoView
    /\ returned' = NoReturn
    /\ UNCHANGED <<itemVars, Items, ActiveItem, viewportVars, failed, calls>>

\* ------------------------------------------------------------ display order
\* The unclipped walk of TreeItem.View: the item's own row, then, when it is open
\* and has children, the rows of its children in order.
RECURSIVE ViewRows(_, _)
ViewRows(ti, fuel) ==
    IF fuel = 0 THEN <<ti>>
    ELSE IF Len(Children[ti]) > 0 /\ Open[ti]
    THEN LET RECURSIVE Kids(_)
             Kids(k) == IF k > Len(Children[ti]) THEN <<>>
                        ELSE ViewRows(Children[ti][k], fuel - 1) \o Kids(k + 1)
         IN  <<ti>> \o Kids(1)
    ELSE <<ti>>

\* The rows of the whole tree: Tree.View's loop over Tree.Items.
RECURSIVE RowsFrom(_)
RowsFrom(k) == IF k > Len(Items) THEN <<>> ELSE ViewRows(Items[k], MaxPool) \o RowsFrom(k + 1)
TreeRows == RowsFrom(1)

\* The items reachable from Tree.Items by following child sequences.
RECURSIVE Below(_, _)
Below(S, fuel) ==
    IF fuel = 0 THEN S
    ELSE Below(S \cup UNION {Range(Children[n]) : n \in S}, fuel - 1)
Reachable == Below(Range(Items), MaxPool)

\* ---------------------------------------------------------- specifications
\* What a caller does with the tree: it creates items, attaches items that were
\* never attached before (to the Tree, or to an item that is not below them),
\* moves the selection, toggles and refreshes.
Build(kinds) ==
    \/ \E kind \in kinds : NewItem(kind)
    \/ \E i \in SeqsUpTo(Fresh, MaxNodes) : TreeAddChildren(i)
    \/ \E ti \in Created : \E c \in SeqsUpTo(Fresh \ ({ti} \cup Ancestors(ti)), MaxNodes) :
          ItemAddChildren(ti, c)

Next ==
    \/ Build(PlainKinds)
    \/ SelectNext
    \/ SelectPrevious
    \/ ToggleChild
    \/ \E ti \in Created : ItemRefresh(ti)
    \/ TreeRefresh

Spec == Init /\ [][Next]_vars

\* The same caller with items that carry hooks (the file browser's items).
NextHooks ==
    \/ Build(HookKinds)
    \/ SelectNext
    \/ SelectPrevious
    \/ ToggleChild

SpecHooks == Init /\ [][NextHooks]_vars

\* The file browser's session: items with hooks, toggled, and refreshed.
NextLazy ==
    \/ NextHooks
    \/ \E ti \in Created : ItemRefresh(ti)

SpecLazy == Init /\ [][NextLazy]_vars

\* The members of the set S of numbers, in increasing order.
RECURSIVE SortedSeq(_)
SortedSeq(S) == IF S = {} THEN <<>> ELSE <<Least(S)>> \o SortedSeq(S \ {Least(S)})

\* The tree a caller has built from n items (numbered in display order) before
\* the program starts to render: par is each item's Parent, can its
\* canHaveChildren argument, pt its ParentTree. AddChildren makes an item with
\* children a CanHaveChildren one, Tree.AddChildren sets ParentTree of the
\* top-level items, and TreeItem.AddChildren copies the receiver's ParentTree of
\* that moment, which is nil when the receiver was not attached yet.
Built(n, par, can, pt) ==
    /\ \A x \in 1..n : par[x] = TREE \/ (par[x] \in 1..n /\ par[x] < x)
    /\ \A x \in 1..n : (\E y \in 1..n : par[y] = x) => can[x]
    /\ \A x \in 1..n : par[x] = TREE => pt[x] = TREE
    /\ \A x \in 1..n : (par[x] # TREE /\ pt[x] = TREE) => pt[par[x]] = TREE

\* The state after New(), the NewItem calls and the AddChildren calls that
\* build such a tree; the first item added to the Tree is the active one.
InitBuilt(n, par, can, pt) ==
    /\ nitems = n
    /\ Parent = [x \in Pool |-> IF x <= n THEN par[x] ELSE NIL]
    /\ ParentTree = [x \in Pool |-> IF x <= n THEN pt[x] ELSE NIL]
    /\ Children = [x \in Pool |-> SortedSeq({y \in 1..n : par[y] = x})]
    /\ CanHaveChildren = [x \in Pool |-> IF x <= n THEN can[x] ELSE FALSE]
    /\ Open = [x \in Pool |-> FALSE]
    /\ OpenFunc = [x \in Pool |-> "nil"]
    /\ CloseFunc = [x \in Pool |-> "nil"]
    /\ indent = [x \in Pool |-> 0]
    /\ Items = SortedSeq({y \in 1..n : par[y] = TREE})
    /\ ActiveItem = IF \E y \in 1..n : par[y] = TREE
                    THEN Least({y \in 1..n : par[y] = TREE}) ELSE NIL
    /\ TopLine = 0
    /\ Width = 0
    /\ Height = 0
    /\ initialized = TRUE
    /\ failed = FALSE
    /\ last = NoOp("New", NIL)
    /\ view = NoView
    /\ returned = NoReturn
    /\ calls = NoCalls

\* Either a flat list of up to MaxFlat top-level leaves, or any tree of up to
\* MaxNodes items.
InitView ==
    \/ \E n \in 0..MaxFlat :
          InitBuilt(n, [x \in 1..n |-> TREE], [x \in 1..n |-> FALSE],
                    [x \in 1..n |-> TREE])
    \/ \E n \in 0..MaxNodes :
       \E par \in [1..n -> {TREE} \cup 1..n] :
       \E can \in [1..n -> BOOLEAN] :
       \E pt \in [1..n -> {NIL, TREE}] :
          /\ Built(n, par, can, pt)
          /\ InitBuilt(n, par, can, pt)

\* The program running on a built tree: key presses, window sizes, scrolling by
\* the host, and rendering.
NextView ==
    \/ SelectNext
    \/ SelectPrevious
    \/ ToggleChild
    \/ \E w \in 1..MaxWidth : \E h \in 0..MaxHeight : WindowSizeMsg(w, h)
    \/ \E k \in 0..MaxScroll : SetTopLine(-k)
    \/ TreeView
    \/ \E ti \in Created : GetPath(ti)

SpecView == InitView /\ [][NextView]_vars

\* ------------------------------------------------------------- concurrency
\* AddChildren run by several threads, one statement at a time. sync.Mutex
\* orders the threads that Lock the same holder; nothing orders a statement
\* outside the Lock/Unlock pair, and a reader takes no lock at all.
InCall(t) == calls[t].pc \notin {"idle", "done"}
HoldsLock(t) == calls[t].pc \in {"append", "store", "unlock"}

LockFreeAlways(h, t) == TRUE
\* Mutex.Lock returns: no other thread is between Lock and Unlock on holder h.
LockFree(h, t) == \A u \in Threads \ {t} : ~(calls[u].holder = h /\ HoldsLock(u))

\* The items of the calls in progress.
InFlight == UNION {Range(calls[t].kids) : t \in {u \in Threads : InCall(u)}}

\* A statement of a call by thread t that leaves the thread at pc.
Goto(t, pc) == calls' = [calls EXCEPT ![t].pc = pc]

CallFrame(h) ==
    /\ last' = NoOp("AddChildren", h)
    /\ view' = NoView
    /\ returned' = NoReturn
    /\ UNCHANGED <<nitems, Open, OpenFunc, CloseFunc, indent, viewportVars, failed>>

\* A thread makes its call h.AddChildren(c...) with items never attached nor
\* handed to a call in progress. Tree.AddChildren returns at once when c is
\* empty.
CallAddChildren(t, h, c) ==
    /\ ~failed
    /\ calls[t].pc = "idle"
    /\ calls' = [calls EXCEPT ![t] =
                   [pc |-> IF h = TREE /\ Len(c) = 0 THEN "done" ELSE "lock",
                    holder |-> h, kids |-> c, old |-> <<>>, k |-> 1,
                    conc |-> \E u \in Threads \ {t} : InCall(u)]]
    /\ CallFrame(h)
    /\ UNCHANGED <<Parent, ParentTree, Children, CanHaveChildren, Items, ActiveItem>>

\* ti.Lock() / t.Lock().
AcquireLock(t) ==
    /\ ~failed
    /\ calls[t].pc = "lock"
    /\ LockFree(calls[t].holder, t)
    /\ Goto(t, "append")
    /\ CallFrame(calls[t].holder)
    /\ UNCHANGED <<Parent, ParentTree, Children, CanHaveChildren, Items, ActiveItem>>

\* append(ti.Children, children...) reads the slice.
ReadSlice(t) ==
    /\ ~failed
    /\ calls[t].pc = "append"
    /\ calls' = [calls EXCEPT ![t].pc = "store", ![t].old = GetItems(calls[t].holder)]
    /\ CallFrame(calls[t].holder)
    /\ UNCHANGED <<Parent, ParentTree, Children, CanHaveChildren, Items, ActiveItem>>

\* ti.Children = append(...) / t.Items = append(...) stores the result.
StoreSlice(t) ==
    LET h == calls[t].holder
        new == AppendChildren(calls[t].old, calls[t].kids)
    IN  /\ ~failed
        /\ calls[t].pc = "store"
        /\ IF h = TREE
           THEN Items' = new /\ UNCHANGED Children
           ELSE Children' = [Children EXCEPT ![h] = new] /\ UNCHANGED Items
        /\ calls' = [calls EXCEPT ![t].pc = "unlock", ![t].old = <<>>]
        /\ CallFrame(h)
        /\ UNCHANGED <<Parent, ParentTree, CanHaveChildren, ActiveItem>>

\* ti.Unlock() / t.Unlock().
ReleaseLock(t) ==
    /\ ~failed
    /\ calls[t].pc = "unlock"
    /\ Goto(t, "flag")
    /\ CallFrame(calls[t].holder)
    /\ UNCHANGED <<Parent, ParentTree, Children, CanHaveChildren, Items, ActiveItem>>

\* ti.CanHaveChildren = true, or the Tree's choice of its first active item.
SetFlag(t) ==
    LET h == calls[t].holder
    IN  /\ ~failed
        /\ calls[t].pc = "flag"
        /\ IF h = TREE
           THEN /\ ActiveItem' = IF ActiveItem = NIL THEN Items[1] ELSE ActiveItem
                /\ UNCHANGED CanHaveChildren
           ELSE /\ CanHaveChildren' = [CanHaveChildren EXCEPT ![h] = TRUE]
                /\ UNCHANGED ActiveItem
        /\ Goto(t, IF Len(calls[t].kids) = 0 THEN "done" ELSE "parent")
        /\ CallFrame(h)
        /\ UNCHANGED <<Parent, ParentTree, Children, Items>>

\* One turn of the loop over the argument: child.Parent and child.ParentTree.
SetParent(t) ==
    LET h == calls[t].holder
        child == calls[t].kids[calls[t].k]
    IN  /\ ~failed
        /\ calls[t].pc = "parent"
        /\ Parent' = [Parent EXCEPT ![child] = h]
        /\ ParentTree' = [ParentTree EXCEPT
                            ![child] = IF h = TREE THEN TREE ELSE ParentTree[h]]
        /\ calls' = [calls EXCEPT
                       ![t].k = @ + 1,
                       ![t].pc = IF calls[t].k = Len(calls[t].kids)
                                 THEN "done" ELSE "parent"]
        /\ CallFrame(h)
        /\ UNCHANGED <<Children, CanHaveChildren, Items, ActiveItem>>

\* A reader on another thread: h.GetItems(), which takes no lock.
ReadItems(h) ==
    /\ ~failed
    /\ last' = [op |-> "GetItems", ti |-> h, kids |-> GetItems(h), hooks |-> <<>>]
    /\ view' = NoView
    /\ returned' = NoReturn
    /\ UNCHANGED <<itemVars, Items, ActiveItem, viewportVars, failed, calls>>

\* MaxNodes items created by NewItem(.., canHaveChildren = false, ..); none is
\* attached yet, or the first one is already the Tree's only item.
InitConc ==
    \E top \in {NIL, TREE} :
        InitBuilt(MaxNodes, [x \in 1..MaxNodes |-> IF x = 1 THEN top ELSE NIL],
                  [x \in 1..MaxNodes |-> FALSE],
                  [x \in 1..MaxNodes |-> IF x = 1 THEN top ELSE NIL])

\* The threads attach the items, a holder taking items created after it.
NextConc ==
    \/ \E t \in Threads : \E h \in {TREE} \cup Created :
       \E c \in SeqsUpTo({x \in Fresh \ InFlight : h = TREE \/ x > h}, MaxNodes) :
          CallAddChildren(t, h, c)
    \/ \E t \in Threads : AcquireLock(t)
    \/ \E t \in Threads : ReadSlice(t)
    \/ \E t \in Threads : StoreSlice(t)
    \/ \E t \in Threads : ReleaseLock(t)
    \/ \E t \in Threads : SetFlag(t)
    \/ \E t \in Threads : SetParent(t)
    \/ \E h \in {TREE} \cup Created : ReadItems(h)

SpecConc == InitConc /\ [][NextConc]_vars

\* ------------------------------------------------------- unchecked callers
\* The argument lists of a caller that passes AddChildren any created items:
\* attached ones, the receiver itself, the same item twice.
AnyItems == UNION {[1..k -> Created] : k \in 0..MaxArgs}

\* Such a caller at work, with navigation, toggling and path queries.
NextAny ==
    \/ nitems < MaxAny /\ NewItem(<<FALSE, "nil", "nil">>)
    \/ \E i \in AnyItems : Len(Items) + Len(i) <= MaxLen /\ TreeAddChildren(i)
    \/ \E ti \in Created : \E c \in AnyItems :
          Len(Children[ti]) + Len(c) <= MaxLen /\ ItemAddChildren(ti, c)
    \/ SelectNext
    \/ SelectPrevious
    \/ ToggleChild
    \/ \E ti \in Created : GetPath(ti)

SpecAny == Init /\ [][NextAny]_vars

\* ------------------------------------------------------------ the whole API
\* A caller that also opens and closes items directly.
NextApi ==
    \/ Next
    \/ \E ti \in Created : OpenChildren(ti)
    \/ \E ti \in Created : CloseChildren(ti)

SpecApi == Init /\ [][NextApi]_vars

\* ------------------------------------------------------------ a static tree
\* A tree built as in Built, some of whose items that can have children the
\* host has opened (ToggleChildren on the item), with the first top-level item
\* active.
InitStatic ==
    \E n \in 1..MaxNodes :
    \E par \in [1..n -> {TREE} \cup 1..n] :
    \E can \in [1..n -> BOOLEAN] :
    \E pt \in [1..n -> {NIL, TREE}] :
    \E opn \in [1..n -> BOOLEAN] :
        /\ Built(n, par, can, pt)
        /\ \A x \in 1..n : opn[x] => can[x]
        /\ nitems = n
        /\ Parent = [x \in Pool |-> IF x <= n THEN par[x] ELSE NIL]
        /\ ParentTree = [x \in Pool |-> IF x <= n THEN pt[x] ELSE NIL]
        /\ Children = [x \in Pool |-> SortedSeq({y \in 1..n : par[y] = x})]
        /\ CanHaveChildren = [x \in Pool |-> IF x <= n THEN can[x] ELSE FALSE]
        /\ Open = [x \in Pool |-> IF x <= n THEN opn[x] ELSE FALSE]
        /\ OpenFunc = [x \in Pool |-> "nil"]
        /\ CloseFunc = [x \in Pool |-> "nil"]
        /\ indent = [x \in Pool |-> 0]
        /\ Items = SortedSeq({y \in 1..n : par[y] = TREE})
        /\ ActiveItem = Least({y \in 1..n : par[y] = TREE})
        /\ TopLine = 0
        /\ Width = 0
        /\ Height = 0
        /\ initialized = TRUE
        /\ failed = FALSE
        /\ last = NoOp("New", NIL)
        /\ view = NoView
        /\ returned = NoReturn
        /\ calls = NoCalls

\* The user keeps pressing "down" and nothing else happens to the tree: the
\* event loop hands every key message to Tree.Update.
NextDown == SelectNext

SpecDown == InitStatic /\ [][NextDown]_vars /\ WF_vars(SelectNext)

\* ==================================================================== claims

\* C1: on an unchanged tree, for every visible item N that is not the last
\* visible row, SelectNext then SelectPrevious returns to N, and for every
\* visible N that is not the first row, SelectPrevious then SelectNext returns to
\* N; neither call fails, whatever the open/closed configuration.
C1_NextPrevInverse ==
    LET rows == TreeRows
    IN  \A p \in 1..Len(rows) :
          LET N == rows[p]
              dn == ItemSelectNext(N)
              up == ItemSelectPrevious(N)
          IN  /\ p < Len(rows) =>
                    /\ dn.rc = "ok"
                    /\ ItemSelectPrevious(dn.active) = Ok(N)
              /\ p > 1 =>
                    /\ up.rc = "ok"
                    /\ ItemSelectNext(up.active) = Ok(N)

\* C2: Tree.ActiveItem is none only when Tree.Items is empty, and otherwise an
\* item reachable from Tree.Items by following child sequences.
C2_ActiveItemReachable ==
    /\ ActiveItem = NIL => Items = <<>>
    /\ ActiveItem # NIL => ActiveItem \in Reachable

\* The previous sibling of ti in its parent's child sequence, or NIL.
PrevSibling(ti) ==
    IF Parent[ti] = NIL THEN NIL
    ELSE LET sib == GetItems(Parent[ti])
             at == Positions(sib, ti)
         IN  IF at # {} /\ Least(at) > 1 THEN sib[Least(at) - 1] ELSE NIL

\* The candidate the spec describes: from c, while the candidate can have
\* children, is open and has a child, its last child.
RECURSIVE LastOpenDescendant(_, _)
LastOpenDescendant(c, fuel) ==
    IF fuel > 0 /\ CanHaveChildren[c] /\ Open[c] /\ Len(Children[c]) > 0
    THEN LastOpenDescendant(Children[c][Len(Children[c])], fuel - 1)
    ELSE c

\* C3: SelectPrevious on an item with a previous sibling P completes without
\* failing and makes active the last open descendant of P (P itself when P is
\* closed or has no children, also when P is open with an empty child sequence).
C3_PreviousDescends ==
    (last.op = "SelectPrevious" /\ last.ti # NIL /\ PrevSibling(last.ti) # NIL)
        => /\ ~failed
           /\ ActiveItem = LastOpenDescendant(PrevSibling(last.ti), MaxPool)

\* The next sibling of ti in its parent's child sequence, or NIL.
NextSibling(ti) ==
    IF Parent[ti] = NIL THEN NIL
    ELSE LET sib == GetItems(Parent[ti])
             at == Positions(sib, ti)
         IN  IF at # {} /\ Least(at) < Len(sib) THEN sib[Least(at) + 1] ELSE NIL

\* The next sibling of the nearest of ti and its ancestors that has one, or NIL.
RECURSIVE NextOfNearest(_, _)
NextOfNearest(ti, fuel) ==
    IF NextSibling(ti) # NIL THEN NextSibling(ti)
    ELSE IF fuel = 0 \/ Parent[ti] \in {NIL, TREE} THEN NIL
    ELSE NextOfNearest(Parent[ti], fuel - 1)

C4_Expected(N) ==
    IF Open[N] /\ Len(Children[N]) > 0 THEN Children[N][1]
    ELSE NextOfNearest(N, MaxPool)

\* C4: SelectNext on the active item N makes active N's first child when N is
\* open and has a child, else N's next sibling, else the next sibling of the
\* nearest ancestor that has one (never a child of an ancestor it climbed to).
C4_NextDescendsThenClimbs ==
    (last.op = "SelectNext" /\ last.ti # NIL /\ C4_Expected(last.ti) # NIL)
        => /\ ~failed
           /\ ActiveItem = C4_Expected(last.ti)

\* C5: no wraparound. SelectPrevious on the first top-level item and SelectNext
\* on the last visible row of the tree leave ActiveItem unchanged and do not fail.
C5_NoWraparound ==
    /\ (last.op = "SelectPrevious" /\ Len(Items) > 0 /\ last.ti = Items[1])
          => (~failed /\ ActiveItem = last.ti)
    /\ (last.op = "SelectNext" /\ Len(TreeRows) > 0
            /\ last.ti = TreeRows[Len(TreeRows)])
          => (~failed /\ ActiveItem = last.ti)

\* C5's case: SelectNext ran on the last visible row, a nested item, and
\* SelectPrevious can run on the first top-level item of the same tree.
C5_Witness ==
    /\ last.op = "SelectNext"
    /\ Len(TreeRows) > 1
    /\ last.ti = TreeRows[Len(TreeRows)]
    /\ Parent[last.ti] # TREE
    /\ ActiveItem = last.ti
    /\ ~failed

\* The tree is a flat list: no top-level item has a child.
FlatList == \A x \in 1..Len(Items) : Len(Children[Items[x]]) = 0

\* The items whose label shows in the text out, in order.
RECURSIVE Labels(_)
Labels(out) ==
    IF Len(out) = 0 THEN <<>>
    ELSE IF out[1].label THEN <<out[1].ti>> \o Labels(Tail(out))
    ELSE Labels(Tail(out))

Min(a, b) == IF a < b THEN a ELSE b

\* C6: for a flat list of n top-level items without children, TopLine = 0 and
\* a height H with 0 < H <= n, Tree.View yields exactly H rows, those of the
\* first H items in order, and the topline counter ends the pass at H.
C6_ClippingBoundary ==
    (last.op = "View" /\ ~failed /\ FlatList /\ TopLine = 0
        /\ 0 < Height /\ Height <= Len(Items))
        => /\ Len(view.out) = Height
           /\ \A r \in 1..Height : view.out[r].ti = Items[r] /\ view.out[r].label
           /\ view.topline = Height

\* C7: for a flat list of n top-level items without children rendered with
\* topline = -k (k >= 0) and bottomline = b, the labels in the output are exactly
\* those of items k .. min(n, k+b)-1 (counted from 0), in order.
C7_NegativeTopline ==
    (last.op = "View" /\ ~failed /\ FlatList)
        => Labels(view.out) = SubSeq(Items, (-TopLine) + 1,
                                     Min(Len(Items), (-TopLine) + Height))

\* C7's case: N0..N9 rendered with topline = -2 and bottomline = 5 show the
\* labels N2..N6.
C7_Witness ==
    /\ last.op = "View"
    /\ ~failed
    /\ FlatList
    /\ Len(Items) = 10
    /\ TopLine = -2
    /\ Height = 5
    /\ Labels(view.out) = SubSeq(Items, 3, 7)

\* C8: an item the render walk visits while topline < 0 contributes no text at
\* all to what Tree.View returns: every row of an item in the output carries
\* the item's label, none is an indentation-and-marker-only row.
C8_SkippedEmitNoText ==
    (last.op = "View" /\ ~failed)
        => \A r \in 1..Len(view.out) : view.out[r].ti # NIL => view.out[r].label

\* C9: ToggleChildren on an item that cannot have children changes nothing and
\* invokes no hook; on an item that can, it flips Open and invokes OpenFunc (if
\* set) exactly once when the item became open, CloseFunc (if set) exactly once
\* when it became closed, and never the other hook.
C9_ToggleHooks ==
    [][(last'.op = "ToggleChild" /\ last'.ti # NIL) =>
          LET ti == last'.ti
          IN  IF ~CanHaveChildren[ti]
              THEN /\ UNCHANGED <<itemVars, Items, ActiveItem, viewportVars, failed>>
                   /\ last'.hooks = <<>>
              ELSE /\ Open'[ti] = ~Open[ti]
                   /\ last'.hooks =
                        IF Open'[ti]
                        THEN IF OpenFunc[ti] # "nil" THEN <<"OpenFunc">> ELSE <<>>
                        ELSE IF CloseFunc[ti] # "nil" THEN <<"CloseFunc">> ELSE <<>>
      ]_vars

\* C9's case: an item with both hooks was opened and has now been closed again,
\* which invoked CloseFunc, while an item that cannot have children carries hooks.
C9_Witness ==
    /\ last.op = "ToggleChild"
    /\ last.hooks = <<"CloseFunc">>
    /\ OpenFunc[last.ti] # "nil"
    /\ ~Open[last.ti]
    /\ \E n \in Created : ~CanHaveChildren[n] /\ OpenFunc[n] # "nil"

\* C10: TreeItem.AddChildren appends the given items in order after the existing
\* children, sets CanHaveChildren (also when no item is given) and sets the
\* Parent of every added item to the receiver.
C10_AddChildrenAppends ==
    [][last'.op = "ItemAddChildren" =>
          LET ti == last'.ti
              c == last'.kids
          IN  /\ Children'[ti] = Children[ti] \o c
              /\ CanHaveChildren'[ti]
              /\ \A k \in Range(c) : Parent'[k] = ti
              /\ \A n \in Pool \ {ti} : Children'[n] = Children[n]
      ]_vars

\* C10's case: an item was appended to an item that already had a child.
C10_Witness ==
    /\ last.op = "ItemAddChildren"
    /\ Len(last.kids) >= 1
    /\ Len(Children[last.ti]) > Len(last.kids)
    /\ Children[last.ti][Len(Children[last.ti])] = last.kids[Len(last.kids)]
\* C11: a reader concurrent with AddChildren sees the state before or after the
\* whole operation: every item GetItems returns has its Parent set to the
\* holder, and a node with a non-empty child sequence has CanHaveChildren set.
C11_ReaderSeesNoPartialAdd ==
    last.op = "GetItems" =>
        /\ \A x \in Range(last.kids) : Parent[x] = last.ti
        /\ (last.ti # TREE /\ Len(last.kids) > 0) => CanHaveChildren[last.ti]

\* C12: concurrent AddChildren calls on one holder lose no child: once a call
\* has returned, its children stand in the holder's child sequence exactly once,
\* contiguous and in the given order, and their Parent is the holder.
C12_NoLostChild ==
    \A t \in Threads : calls[t].pc = "done" =>
        LET h == calls[t].holder
            c == calls[t].kids
            seq == GetItems(h)
        IN  /\ \E at \in 0..Len(seq) :
                  at + Len(c) <= Len(seq) /\ SubSeq(seq, at + 1, at + Len(c)) = c
            /\ \A x \in Range(c) :
                  Cardinality(Positions(seq, x)) = 1 /\ Parent[x] = h

\* C12's case: two calls on the same holder, each with a child, have both
\* returned, one begun while the other was in progress and stored first.
C12_Witness ==
    \E t, u \in Threads :
        /\ t # u
        /\ calls[t].pc = "done" /\ calls[u].pc = "done"
        /\ calls[t].holder = calls[u].holder
        /\ Len(calls[t].kids) > 0 /\ Len(calls[u].kids) > 0
        /\ calls[u].conc
        /\ GetItems(calls[t].holder) = calls[u].kids \o calls[t].kids
\* C13: TreeItem.Refresh empties the node's child sequence and closes it whatever
\* its state, and changes nothing of any other node; the next ToggleChildren on
\* the refreshed node (one that can have children) opens it and invokes its
\* OpenFunc again.
C13_RefreshThenReopen ==
    [][/\ last'.op = "ItemRefresh" =>
            /\ Children'[last'.ti] = <<>>
            /\ ~Open'[last'.ti]
            /\ \A n \in Pool \ {last'.ti} :
                  Children'[n] = Children[n] /\ Open'[n] = Open[n]
            /\ UNCHANGED <<nitems, Parent, ParentTree, CanHaveChildren, OpenFunc,
                           CloseFunc, Items, ActiveItem>>
       /\ (last.op = "ItemRefresh" /\ last'.op = "ToggleChild" /\ last'.ti = last.ti
              /\ CanHaveChildren[last.ti]) =>
            /\ Open'[last.ti]
            /\ last'.hooks = IF OpenFunc[last.ti] # "nil" THEN <<"OpenFunc">> ELSE <<>>
      ]_vars

\* C13's case: a node whose children were dropped by Refresh is open again, its
\* OpenFunc was invoked by the toggle and has populated it anew.
C13_Witness ==
    /\ last.op = "ToggleChild"
    /\ last.hooks = <<"OpenFunc">>
    /\ Open[last.ti]
    /\ Len(Children[last.ti]) > 0
    /\ \E n \in Created : Parent[n] = last.ti /\ n \notin Range(Children[last.ti])
\* The holder whose child sequence holds x: the Tree, an item, or NIL.
HolderOf(x) ==
    IF x \in Range(Items) THEN TREE
    ELSE IF \E h \in Created : x \in Range(Children[h])
    THEN CHOOSE h \in Created : x \in Range(Children[h])
    ELSE NIL

\* The names on the way down from the top-level items to x, found in the child
\* sequences.
RECURSIVE NamesDownTo(_, _)
NamesDownTo(x, fuel) ==
    IF fuel = 0 \/ HolderOf(x) \in {NIL, TREE} THEN <<Name(x)>>
    ELSE Append(NamesDownTo(HolderOf(x), fuel - 1), Name(x))

\* C14: for an item N attached under the ancestors A1 (top-level), .., Ak,
\* GetPath(N) returns the names A1, .., Ak, N in that order, with no element for
\* the Tree, and modifies nothing.
C14_GetPathRootToLeaf ==
    [][last'.op = "GetPath" =>
          /\ last'.ti \in Reachable => last'.kids = NamesDownTo(last'.ti, MaxPool)
          /\ UNCHANGED <<itemVars, Items, ActiveItem, viewportVars, failed>>
      ]_vars

\* C14's case: the path of an item two levels below a top-level item.
C14_Witness ==
    /\ last.op = "GetPath"
    /\ Len(last.kids) = 3
    /\ last.kids[3] = Name(last.ti)
    /\ last.kids[1] \in {Name(x) : x \in Range(Items)}
RECURSIVE RowsOfKids(_, _)
RowsOfKids(kids, k) ==
    IF k > Len(kids) THEN <<>>
    ELSE ViewRows(kids[k], MaxPool) \o RowsOfKids(kids, k + 1)

\* C16: closing a node with ToggleChildren changes only that node's Open flag,
\* and so does reopening a node that has children: the Open flags and child
\* sequences of its descendants are kept, the rows below the reopened node are
\* those its children had while it was closed, and the only hook either call
\* invokes is the node's own.
C16_CloseKeepsDescendants ==
    [][(last'.op = "ToggleChild" /\ last'.ti # NIL /\ CanHaveChildren[last'.ti]
            /\ (Open[last'.ti] \/ Len(Children[last'.ti]) > 0)) =>
          LET ti == ActiveItem
          IN  /\ last'.ti = ti
              /\ \A n \in Pool \ {ti} : Open'[n] = Open[n]
              /\ Open'[ti] = ~Open[ti]
              /\ UNCHANGED <<nitems, Parent, ParentTree, Children, CanHaveChildren,
                             OpenFunc, CloseFunc, Items, ActiveItem>>
              /\ last'.hooks \in {<<>>, IF Open[ti] THEN <<"CloseFunc">>
                                                  ELSE <<"OpenFunc">>}
              /\ Open'[ti] =>
                    ViewRows(ti, MaxPool)' = <<ti>> \o RowsOfKids(Children[ti], 1)
      ]_vars

\* C16's case: a node is open again after it was closed, and below it a child
\* with hooks of its own is still open and shows a grandchild.
C16_Witness ==
    /\ last.op = "ToggleChild"
    /\ last.ti # NIL
    /\ Open[last.ti]
    /\ \E c \in Range(Children[last.ti]) :
          Open[c] /\ Len(Children[c]) > 0 /\ OpenFunc[c] # "nil"
\* The rows of the display order that fall inside the window: the counter,
\* seeded with TopLine, is not negative when the row is reached and not above
\* Height once the row is counted.
InWindow(p) == TopLine + p - 1 >= 0 /\ TopLine + p <= Height

\* C17: in what Tree.View returns, a row is focused if and only if it is the
\* rendered row of Tree.ActiveItem; a focused row exists exactly when the active
\* item's row lies inside the window, there is at most one, and with no active
\* item the render does not fail and focuses no row.
C17_FocusOnlyActiveRow ==
    /\ (last.op = "View" /\ ~failed) =>
          /\ \A r \in 1..Len(view.out) :
                view.out[r].focused <=>
                    (ActiveItem # NIL /\ view.out[r].ti = ActiveItem
                        /\ view.out[r].label)
          /\ Cardinality({r \in 1..Len(view.out) : view.out[r].focused}) <= 1
          /\ (\E r \in 1..Len(view.out) : view.out[r].focused) <=>
                (\E p \in 1..Len(TreeRows) : TreeRows[p] = ActiveItem /\ InWindow(p))
    /\ (last.op = "View" /\ ActiveItem = NIL) => ~failed

\* C17's case: the active item is rendered focused below rows that are not,
\* in a view scrolled past its first row.
C17_Witness ==
    /\ last.op = "View"
    /\ ~failed
    /\ TopLine < 0
    /\ Len(view.out) >= 3
    /\ view.out[3].focused
    /\ view.out[2].label
\* C18: Tree.View on a tree that has received no window size since New (Width
\* and Height are still 0) returns empty output, for every item list, every
\* open/closed configuration and every TopLine.
C18_UnsizedViewIsEmpty ==
    (last.op = "View" /\ ~failed /\ Width = 0 /\ Height = 0) => view.out = <<>>
\* How often x stands in the sequence seq.
Occurrences(seq, x) == Cardinality(Positions(seq, x))

\* C19: after any sequence of AddChildren calls, also ones that add an attached
\* item or the same item twice, every item stands in at most one child sequence,
\* at most once, and that sequence is the one of the holder its Parent names.
C19_NoAliasing ==
    \A x \in Created :
        /\ Occurrences(Items, x)
              + Cardinality({h \in Created : x \in Range(Children[h])}) <= 1
        /\ \A h \in Created : Occurrences(Children[h], x) <= 1
        /\ x \in Range(Items) => Parent[x] = TREE
        /\ \A h \in Created : x \in Range(Children[h]) => Parent[x] = h
\* Where following Parent from x ends: TREE, or NIL when the chain ends at an
\* item without a Parent or never ends.
RECURSIVE ChainEnd(_, _)
ChainEnd(x, fuel) ==
    IF x \in {NIL, TREE} THEN x
    ELSE IF fuel = 0 THEN NIL
    ELSE ChainEnd(Parent[x], fuel - 1)

\* C20: after any sequence of AddChildren calls, also ones that add an item to
\* itself or to one below it, no item is its own ancestor, following Parent
\* from an item of the tree ends at the Tree, and GetPath and the climb of
\* SelectNext terminate on every item.
C20_NoCycles ==
    \A x \in Created :
        /\ x \notin Ancestors(x)
        /\ x \in Reachable => ChainEnd(x, MaxPool) = TREE
        /\ HolderGetPath(x, MaxPool + 1).rc = "ok"
        /\ ItemSelectNext(x).rc # "hang"
\* C21: a down command on the last visible row tells the caller that a move
\* past the end was attempted: what Tree.Update returns for it differs from what
\* it returned for the down command before it, which moved the selection.
C21_EndOfTreeSignalled ==
    [][(/\ last.op = "SelectNext" /\ last.ti # NIL /\ ActiveItem # last.ti
        /\ ~failed /\ ~failed'
        /\ last'.op = "SelectNext" /\ ActiveItem' = ActiveItem
        /\ Len(TreeRows) > 0 /\ ActiveItem = TreeRows[Len(TreeRows)])
          => returned' # returned
      ]_vars
\* C22: in every reachable state an item is open only if it can have children,
\* whichever of ToggleChildren, OpenChildren, CloseChildren, AddChildren,
\* Refresh and NewItem ran.
C22_OpenImpliesCanHaveChildren ==
    \A n \in Created : Open[n] => CanHaveChildren[n]
\* C23: navigation order is display order. SelectNext on an item shown in row p
\* of the unclipped rendering completes and makes active the item of row p + 1,
\* and SelectPrevious makes active the item of row p - 1 (the last visible
\* descendant of an expanded previous sibling).
C23_NavigationIsDisplayOrder ==
    LET rows == TreeRows
        at == Positions(rows, last.ti)
    IN  (last.ti # NIL /\ at # {}) =>
            LET p == Least(at)
            IN  /\ (last.op = "SelectNext" /\ p < Len(rows))
                      => (~failed /\ ActiveItem = rows[p + 1])
                /\ (last.op = "SelectPrevious" /\ p > 1)
                      => (~failed /\ ActiveItem = rows[p - 1])
\* C24: with TopLine = 0 and Height = H, what Tree.View returns has at most H
\* rows and each of them is the row of an item; an item clipped at the bottom
\* of the window contributes no row, not even an empty one.
C24_AtMostHeightRows ==
    (last.op = "View" /\ ~failed /\ TopLine = 0)
        => /\ Len(view.out) <= Height
           /\ \A r \in 1..Len(view.out) : view.out[r].ti # NIL
\* C25: the render pass stops once the window is filled. Every visit of an item
\* by ScrollView adds one to the topline counter, so a pass that visits nothing
\* after the counter reached bottomline ends with a counter of at most
\* bottomline + 1.
C25_RenderStopsWhenFilled ==
    (last.op = "View" /\ ~failed /\ TopLine <= Height)
        => view.topline <= Height + 1
\* C26: every item reachable from Tree.Items has that tree as its ParentTree,
\* whatever the order in which the items were attached.
C26_ParentTreeEverywhere ==
    \A n \in Reachable : ParentTree[n] = TREE
\* C27: on a static tree with a visible active item, every down command
\* completes and moves the selection to the row just below, a down command on
\* the last visible row changes nothing, and repeated down commands eventually
\* make the last visible row active.
C27_MoveDownReachesLastRow ==
    /\ [][/\ ~failed'
          /\ ActiveItem' # ActiveItem =>
                \E q \in 1..(Len(TreeRows) - 1) :
                    TreeRows[q] = ActiveItem /\ TreeRows[q + 1] = ActiveItem'
          /\ ActiveItem = TreeRows[Len(TreeRows)] => ActiveItem' = ActiveItem
         ]_vars
    /\ <>(~failed /\ ActiveItem = TreeRows[Len(TreeRows)])
\* C28: Tree.AddChildren appends the given items in order after the existing
\* top-level items and makes the Tree the Parent of each; it makes the first
\* top-level item active when it adds at least one item to a tree without an
\* active item, and leaves ActiveItem unchanged when the tree has an active item
\* or no item is given.
C28_TreeAddChildren ==
    [][last'.op = "TreeAddChildren" =>
          LET i == last'.kids
          IN  /\ Items' = Items \o i
              /\ \A k \in Range(i) : Parent'[k] = TREE
              /\ (Len(i) >= 1 /\ ActiveItem = NIL) => ActiveItem' = Items'[1]
              /\ (Len(i) = 0 \/ ActiveItem # NIL) => ActiveItem' = ActiveItem
      ]_vars

\* C28's case: several items were added at once to a tree that had none, and
\* the first of them is active.
C28_Witness ==
    /\ last.op = "TreeAddChildren"
    /\ Len(last.kids) >= 2
    /\ Items = last.kids
    /\ ActiveItem = Items[1]
\* C29: SelectNext and SelectPrevious change nothing but Tree.ActiveItem (no
\* Open flag, CanHaveChildren, child sequence, Parent, or viewport field) and
\* invoke no hook; ToggleChild changes neither ActiveItem nor the viewport.
C29_NavigationFrame ==
    [][/\ last'.op \in {"SelectNext", "SelectPrevious"} =>
             /\ UNCHANGED <<nitems, Parent, ParentTree, Children, CanHaveChildren,
                            Open, OpenFunc, CloseFunc, Items, TopLine, Width,
                            Height, initialized>>
             /\ last'.hooks = <<>>
       /\ last'.op = "ToggleChild" =>
             UNCHANGED <<ActiveItem, Items, TopLine, Width, Height, initialized>>
      ]_vars

\* C29's case: the selection moved away from an open item that has a CloseFunc
\* and to an item that has an OpenFunc.
C29_Witness ==
    /\ last.op \in {"SelectNext", "SelectPrevious"}
    /\ ~failed
    /\ last.ti # NIL /\ ActiveItem # last.ti
    /\ Open[last.ti] /\ CloseFunc[last.ti] # "nil"
    /\ OpenFunc[ActiveItem] # "nil"
\* C30: on a tree to which no item was ever added (no active item), the up,
\* down and toggle commands of Tree.Update change nothing of the tree's state,
\* invoke no hook and do not fail.
C30_EmptyTreeCommands ==
    [][(/\ ActiveItem = NIL /\ Items = <<>>
        /\ last'.op \in {"SelectNext", "SelectPrevious", "ToggleChild"})
          => /\ UNCHANGED <<itemVars, Items, ActiveItem, viewportVars>>
             /\ ~failed'
             /\ last'.hooks = <<>>
             /\ returned' = UpdateReturn
      ]_vars

\* C30's case: a down command was handled while items exist but none was added
\* to the tree.
C30_Witness ==
    /\ last.op = "SelectNext"
    /\ last.ti = NIL /\ ActiveItem = NIL /\ Items = <<>>
    /\ nitems >= 1
    /\ ~failed
====
